---- MODULE Spec2Model ----
(***************************************************************************)
(* Model of the SL030 RFID reader driver (rfidreader/hardware.py) and of   *)
(* the presence loop of the MQTT bridge (rfidreader/commands/bridge.py).   *)
(*                                                                         *)
(* Python strings are modelled as sequences of byte values 0..255; Python  *)
(* indexes from 0 and TLA+ from 1, so s[i] of the source is s[i+1] here.   *)
(* A raised exception is modelled as a result record whose error field     *)
(* names the exception; "" means the call returned normally.               *)
(***************************************************************************)
EXTENDS Integers, Sequences, FiniteSets, TLC

(***************************************************************************)
(* Program constants.                                                      *)
(***************************************************************************)
COMMAND_SLEEP == 1
STATUS_SUCCESS == 0
\* write(): "if length > 255"
MaxFrameLength == 255
\* read(): "lambda c: c & 127"; c & 127 = c % 128 for a byte c
MSBModulus == 128

\* The attributes the class body of RFIDReader assigns.  select() looks up
\* RFIDReader.COMMAND_SELECT, which the class body never assigns.
ClassAttributes == [COMMAND_SLEEP |-> COMMAND_SLEEP, STATUS_SUCCESS |-> STATUS_SUCCESS]

\* Python's None, and the values of self.pin_detect / self.pin_wake.
None == <<>>
PinNone == "None"
PinFile == "value-file"

\* The exceptions the driver raises.
PayloadTooLarge == "ValueError: Data must be shorter than 254 bytes"
InvalidCommand == "ValueError: Invalid command"
CommandMismatch == "RuntimeError: Response to invalid command in transaction"
IndexError == "IndexError: string index out of range"
NoneTypeError == "AttributeError: 'NoneType' object has no attribute"
NoSuchAttribute == "AttributeError: type object 'RFIDReader' has no attribute"

Ok(v) == [error |-> "", value |-> v]
Err(e) == [error |-> e, value |-> <<>>]

(***************************************************************************)
(* Bounds of the model.                                                    *)
(***************************************************************************)
\* payload lengths go up to MaxFrameLength + ExtraLen
ExtraLen == 1
\* bytes the bus returns after the end of a response frame
MaxPad == 2
\* iterations of the bridge loop
MaxIter == 6

Min(a, b) == IF a < b THEN a ELSE b

\* Python's s[a:b] for 0 <= a, 0 <= b: out-of-range bounds are clipped.
PySlice(s, a, b) == SubSeq(s, a + 1, Min(b, Len(s)))

(***************************************************************************)
(* Inputs.                                                                 *)
(***************************************************************************)
Commands == {-1, 0, 1, 129, 256}
PayloadLens == {0, 1} \cup ((MaxFrameLength - 1) .. (MaxFrameLength + ExtraLen))
Payload(n) == [i \in 1..n |-> i % 256]
Payloads == {Payload(n) : n \in PayloadLens}

\* A well-formed response frame of the module: the length byte counts the
\* command, the status and the data.
Frame(command, status, data) == <<2 + Len(data), command, status>> \o data
Padded(s, n) == s \o [i \in 1..n |-> 9]
\* bit 7 set on the bytes whose (1-based) position is in where
MSBSet(s, where) == [i \in 1..Len(s) |-> IF i \in where /\ s[i] < MSBModulus THEN s[i] + MSBModulus ELSE s[i]]
MSBPatterns(n) == {{}, 1..n, {1}}
ResponseCommands == {0, 1}
ResponseStatuses == {0, 1}
ResponseData == {<<>>, <<1, 2, 3, 4>>}
WholeFrames == {Frame(c, s, d) : c \in ResponseCommands, s \in ResponseStatuses, d \in ResponseData}
\* what one bus.read(256) may return: a frame, cut short or followed by
\* further bytes, with bit 7 of some bytes set
Shapes(f) == {SubSeq(f, 1, n) : n \in {0, 2, 3, Len(f) - 1, Len(f)}} \cup {Padded(f, n) : n \in 1..MaxPad}
RawResponses == UNION {{MSBSet(r, w) : w \in MSBPatterns(Len(r))} : r \in UNION {Shapes(f) : f \in WholeFrames}}

(***************************************************************************)
(* RFIDReader.read: decoding of one response.                              *)
(***************************************************************************)
\* A cleaning that leaves bit 7 as received.
CleanKeepsMSB(response) == response

Clean(response) == [i \in 1..Len(response) |-> response[i] % MSBModulus]

ReadDecode(response) ==
    IF Len(response) < 1 THEN Err(IndexError)
    ELSE LET length == response[1]
             clean == Clean(response)
         IN  IF Len(clean) < 3 THEN Err(IndexError)
             ELSE Ok(<<clean[2], clean[3], PySlice(clean, 3, length + 1)>>)

(***************************************************************************)
(* RFIDReader.write: validation and encoding of one request.               *)
(***************************************************************************)
\* A validation that is off by one: it rejects a frame of 255 bytes.
WriteCheckOffByOne(command, data) ==
    LET length == 1 + Len(data)
    IN  IF length >= MaxFrameLength THEN PayloadTooLarge
        ELSE IF ~(0 <= command /\ command <= 255) THEN InvalidCommand
        ELSE ""

WriteCheck(command, data) ==
    LET length == 1 + Len(data)
    IN  IF length > MaxFrameLength THEN PayloadTooLarge
        ELSE IF ~(0 <= command /\ command <= 255) THEN InvalidCommand
        ELSE ""

WriteBytes(command, data) == <<1 + Len(data), command>> \o data

(***************************************************************************)
(* RFIDReader.transaction: the check made on the decoded response.         *)
(***************************************************************************)
\* A check that lets a successful response through whatever it echoes.
TransactionResultTrustsSuccess(command, decoded) ==
    IF decoded.error # "" THEN decoded
    ELSE IF decoded.value[1] # command /\ decoded.value[2] # STATUS_SUCCESS THEN Err(CommandMismatch)
    ELSE Ok(<<decoded.value[2], decoded.value[3]>>)

TransactionResult(command, decoded) ==
    IF decoded.error # "" THEN decoded
    ELSE IF decoded.value[1] # command THEN Err(CommandMismatch)
    ELSE Ok(<<decoded.value[2], decoded.value[3]>>)

(***************************************************************************)
(* RFIDReader.select: what it makes of the transaction's result.  A card   *)
(* is the tuple (type, uid) the source returns.                            *)
(***************************************************************************)
SelectResult(txn) ==
    IF txn.error # "" THEN txn
    ELSE LET status == txn.value[1]
             data == txn.value[2]
             length == Len(data)
         IN  IF status # STATUS_SUCCESS THEN Ok(None)
             ELSE IF length = 0 THEN Err(IndexError)
             ELSE Ok(<<data[length], PySlice(data, 0, length - 1)>>)

(***************************************************************************)
(* State of the reader session.                                            *)
(***************************************************************************)
VARIABLES
    pin_detect,   \* self.pin_detect: PinNone or the opened value file
    pin_wake,     \* self.pin_wake: PinNone or the opened value file
    wakeLine,     \* the value last written to the wake line ("" if never)
    pc,           \* where the session is: "idle" or inside a call's wait
    cur,          \* the call in progress or last made: op, command, data
    busOps,       \* bus accesses of that call, in order
    gpioOps,      \* GPIO accesses of that call, in order
    ret,          \* outcome of the last completed call
    present,      \* bridge loop: the last-known card, or None
    events,       \* bridge loop: what was published, in order
    results,      \* bridge loop: what select() returned, per iteration
    eventIter,    \* bridge loop: the iteration that published each event
    loopPc,       \* bridge loop: "running" or "terminated"
    selectCalls,  \* bridge loop: how many times it has called rfid.select()
    selectErr     \* bridge loop: the exception of its latest rfid.select() ("" if none)

readerVars == <<pin_detect, pin_wake, wakeLine, pc, cur, busOps, gpioOps, ret>>
loopVars == <<present, events, results, eventIter, loopPc, selectCalls, selectErr>>
vars == <<pin_detect, pin_wake, wakeLine, pc, cur, busOps, gpioOps, ret, present, events, results, eventIter, loopPc, selectCalls, selectErr>>

NoCall == [op |-> "none", command |-> 0, data |-> <<>>]
Call(op, command, data) == [op |-> op, command |-> command, data |-> data]
BusWrite(bytes) == [kind |-> "write", bytes |-> bytes]
BusRead(bytes) == [kind |-> "read", bytes |-> bytes]

LoopInitial ==
    /\ present = None
    /\ events = <<>>
    /\ results = <<>>
    /\ eventIter = <<>>
    /\ loopPc = "running"
    /\ selectCalls = 0
    /\ selectErr = ""

\* RFIDReader.__init__(bus, address, detect, wake), having returned.
Init ==
    /\ pin_detect \in {PinNone, PinFile}
    /\ pin_wake \in {PinNone, PinFile}
    /\ wakeLine = IF pin_wake = PinNone THEN "" ELSE "1"
    /\ pc = "idle"
    /\ cur = NoCall
    /\ busOps = <<>>
    /\ gpioOps = <<>>
    /\ ret = Err("")
    /\ LoopInitial

Pins == <<pin_detect, pin_wake>>

\* A call that ends at once: its outcome, and the accesses it made.
Finish(call, outcome, bus, gpio) ==
    /\ pc' = "idle"
    /\ cur' = call
    /\ ret' = outcome
    /\ busOps' = bus
    /\ gpioOps' = gpio

\* rfid.write(command, data)
Write(command, data) ==
    /\ pc = "idle"
    /\ LET e == WriteCheck(command, data)
       IN  IF e # ""
           THEN Finish(Call("write", command, data), Err(e), <<>>, <<>>)
           ELSE Finish(Call("write", command, data), Ok(None), <<BusWrite(WriteBytes(command, data))>>, <<>>)
    /\ UNCHANGED <<Pins, wakeLine, loopVars>>

\* rfid.read()
Read(response) ==
    /\ pc = "idle"
    /\ Finish(Call("read", 0, <<>>), ReadDecode(response), <<BusRead(response)>>, <<>>)
    /\ UNCHANGED <<Pins, wakeLine, loopVars>>

\* transaction(), up to time.sleep(0.1): self.write(command, data).
\* bus and gpio are the accesses the enclosing call has made so far.
TransactionStart(op, command, data, bus, gpio) ==
    LET e == WriteCheck(command, data)
    IN  IF e # ""
        THEN Finish(Call(op, command, data), Err(e), bus, gpio)
        ELSE /\ pc' = "settle"
             /\ cur' = Call(op, command, data)
             /\ busOps' = Append(bus, BusWrite(WriteBytes(command, data)))
             /\ gpioOps' = gpio
             /\ ret' = ret

\* rfid.transaction(command, data), first half
TransactionWrite(command, data) ==
    /\ pc = "idle"
    /\ TransactionStart("transaction", command, data, <<>>, <<>>)
    /\ UNCHANGED <<Pins, wakeLine, loopVars>>

\* A transaction that reads a second time when the first response does not
\* echo the request.
TransactionReadRetries(response) ==
    /\ pc = "settle"
    /\ LET txn == TransactionResult(cur.command, ReadDecode(response))
           reads == IF txn.error = CommandMismatch
                    THEN <<BusRead(response), BusRead(response)>>
                    ELSE <<BusRead(response)>>
       IN  Finish(cur, IF cur.op = "transaction" THEN txn ELSE SelectResult(txn),
                  busOps \o reads, gpioOps)
    /\ UNCHANGED <<Pins, wakeLine, loopVars>>

\* transaction() after time.sleep(0.1): self.read(), the comparison, and,
\* inside select(), what select() does with the result.
TransactionRead(response) ==
    /\ pc = "settle"
    /\ LET txn == TransactionResult(cur.command, ReadDecode(response))
       IN  Finish(cur, IF cur.op = "transaction" THEN txn ELSE SelectResult(txn),
                  Append(busOps, BusRead(response)), gpioOps)
    /\ UNCHANGED <<Pins, wakeLine, loopVars>>

\* A sleep() that waits for a response, as a transaction does.
SleepAwaitsResponse ==
    /\ pc = "idle"
    /\ TransactionStart("sleep", COMMAND_SLEEP, <<>>, <<>>, <<>>)
    /\ UNCHANGED <<Pins, wakeLine, loopVars>>

\* rfid.sleep()
Sleep ==
    /\ pc = "idle"
    /\ LET e == WriteCheck(COMMAND_SLEEP, <<>>)
       IN  IF e # ""
           THEN Finish(Call("sleep", COMMAND_SLEEP, <<>>), Err(e), <<>>, <<>>)
           ELSE Finish(Call("sleep", COMMAND_SLEEP, <<>>), Ok(None), <<BusWrite(WriteBytes(COMMAND_SLEEP, <<>>))>>, <<>>)
    /\ UNCHANGED <<Pins, wakeLine, loopVars>>

\* A wake() that writes to the wake line whether or not it was opened.
WakeHighUnguarded ==
    /\ pc = "idle"
    /\ pc' = "pulse"
    /\ cur' = Call("wake", 0, <<>>)
    /\ busOps' = <<>>
    /\ gpioOps' = <<"wake.write 1">>
    /\ ret' = ret
    /\ wakeLine' = "1"
    /\ UNCHANGED <<Pins, loopVars>>

\* rfid.wake(), up to time.sleep(0.1): self.pin_wake.write('1')
WakeHigh ==
    /\ pc = "idle"
    /\ IF pin_wake = PinNone
       THEN /\ Finish(Call("wake", 0, <<>>), Err(NoneTypeError), <<>>, <<>>)
            /\ wakeLine' = wakeLine
       ELSE /\ pc' = "pulse"
            /\ cur' = Call("wake", 0, <<>>)
            /\ busOps' = <<>>
            /\ gpioOps' = <<"wake.write 1">>
            /\ ret' = ret
            /\ wakeLine' = "1"
    /\ UNCHANGED <<Pins, loopVars>>

\* A wake() that ends without driving the line low again.
WakeLowOmitted ==
    /\ pc = "pulse"
    /\ Finish(cur, Ok(None), busOps, gpioOps)
    /\ wakeLine' = wakeLine
    /\ UNCHANGED <<Pins, loopVars>>

\* rfid.wake() after time.sleep(0.1): self.pin_wake.write('0')
WakeLow ==
    /\ pc = "pulse"
    /\ Finish(cur, Ok(None), busOps, Append(gpioOps, "wake.write 0"))
    /\ wakeLine' = "0"
    /\ UNCHANGED <<Pins, loopVars>>

\* select(): the lookup of RFIDReader.COMMAND_SELECT, then the transaction.
SelectStart(op, bus, gpio) ==
    IF "COMMAND_SELECT" \in DOMAIN ClassAttributes
    THEN TransactionStart(op, ClassAttributes["COMMAND_SELECT"], <<>>, bus, gpio)
    ELSE Finish(Call(op, 0, <<>>), Err(NoSuchAttribute), bus, gpio)

\* rfid.select()
Select ==
    /\ pc = "idle"
    /\ SelectStart("select", <<>>, <<>>)
    /\ UNCHANGED <<Pins, wakeLine, loopVars>>

\* rfid.poll(), up to poll.poll(): the discard-read of the detect line and
\* the registration for EPOLLPRI.
PollWait ==
    /\ pc = "idle"
    /\ IF pin_detect = PinNone
       THEN Finish(Call("poll", 0, <<>>), Err(NoneTypeError), <<>>, <<>>)
       ELSE /\ pc' = "edge"
            /\ cur' = Call("poll", 0, <<>>)
            /\ busOps' = <<>>
            /\ gpioOps' = <<"detect.read", "detect.epoll">>
            /\ ret' = ret
    /\ UNCHANGED <<Pins, wakeLine, loopVars>>

\* rfid.poll() once poll.poll() returns: self.select()
PollEdge ==
    /\ pc = "edge"
    /\ SelectStart("poll", busOps, Append(gpioOps, "detect.edge"))
    /\ UNCHANGED <<Pins, wakeLine, loopVars>>

\* The bytes of a written frame as they come back from the wire: bit 7 of
\* every byte set.
OnWire(frame) == MSBSet(frame, 1..Len(frame))

\* rfid.write(command, data) followed by rfid.read() on a bus that returns
\* the written frame, bit 7 set.
RoundTrip(command, data) ==
    /\ pc = "idle"
    /\ LET e == WriteCheck(command, data)
           frame == WriteBytes(command, data)
       IN  IF e # ""
           THEN Finish(Call("roundtrip", command, data), Err(e), <<>>, <<>>)
           ELSE Finish(Call("roundtrip", command, data), ReadDecode(OnWire(frame)),
                       <<BusWrite(frame), BusRead(OnWire(frame))>>, <<>>)
    /\ UNCHANGED <<Pins, wakeLine, loopVars>>

Next ==
    \/ \E c \in Commands, d \in Payloads : Write(c, d)
    \/ \E r \in RawResponses : Read(r)
    \/ \E c \in Commands, d \in Payloads : TransactionWrite(c, d)
    \/ \E r \in RawResponses : TransactionRead(r)
    \/ Sleep
    \/ WakeHigh
    \/ WakeLow
    \/ Select
    \/ PollWait
    \/ PollEdge
    \/ \E c \in Commands, d \in Payloads : RoundTrip(c, d)

Spec == Init /\ [][Next]_vars

(***************************************************************************)
(* The bridge loop, loop(rfid, client).  rfid is any object with a         *)
(* select() method: each iteration takes what that call returned (None or  *)
(* a card) or the exception it raised.                                     *)
(***************************************************************************)
PRESENTED_TOPIC == "rfid/presented"
REMOVED_TOPIC == "rfid/removed"

\* cards as select() returns them: (type, uid)
CardA == <<4, <<1, 2, 3>>>>
CardB == <<4, <<1, 2, 5>>>>
CardC == <<5, <<1, 2, 3>>>>
Cards == {CardA, CardB, CardC}
SelectOutcomes == {Ok(None)} \cup {Ok(c) : c \in Cards} \cup {Err(NoSuchAttribute), Err(CommandMismatch), Err(IndexError)}

\* client.publish(topic, payload=None)
Publish(topic, payload) == [topic |-> topic, payload |-> payload]

\* A body that never stores the card it read.
LoopPresentForgets(last, response) ==
    IF response # None THEN last ELSE None

\* the value of present after the body of one iteration
LoopPresent(last, response) ==
    IF response # None
    THEN IF last # response THEN response ELSE last
    ELSE IF last # None THEN None ELSE last

\* A body that publishes a presentation for every card read.
LoopPublishEveryRead(last, response) ==
    IF response # None
    THEN <<Publish(PRESENTED_TOPIC, response[2])>>
    ELSE IF last # None THEN <<Publish(REMOVED_TOPIC, None)>> ELSE <<>>

\* A body that publishes a removal for every empty read.
LoopPublishEveryMiss(last, response) ==
    IF response # None
    THEN IF last # response THEN <<Publish(PRESENTED_TOPIC, response[2])>> ELSE <<>>
    ELSE <<Publish(REMOVED_TOPIC, None)>>

\* what the body of one iteration publishes
LoopPublish(last, response) ==
    IF response # None
    THEN IF last # response THEN <<Publish(PRESENTED_TOPIC, response[2])>> ELSE <<>>
    ELSE IF last # None THEN <<Publish(REMOVED_TOPIC, None)>> ELSE <<>>

\* loop(rfid, client), having assigned present = None
LoopInit ==
    /\ pin_detect = PinFile
    /\ pin_wake = PinNone
    /\ wakeLine = ""
    /\ pc = "idle"
    /\ cur = NoCall
    /\ busOps = <<>>
    /\ gpioOps = <<>>
    /\ ret = Err("")
    /\ LoopInitial

\* An iteration that catches the exception of select() and goes on as if no
\* card had been read.
LoopIterationCatches(outcome) ==
    /\ loopPc = "running"
    /\ Len(results) < MaxIter
    /\ selectCalls' = selectCalls + 1
    /\ selectErr' = outcome.error
    /\ LET response == IF outcome.error # "" THEN None ELSE outcome.value
           published == LoopPublish(present, response)
       IN  /\ present' = LoopPresent(present, response)
           /\ events' = events \o published
           /\ eventIter' = eventIter \o [k \in 1..Len(published) |-> Len(results) + 1]
           /\ results' = Append(results, response)
           /\ loopPc' = loopPc
    /\ UNCHANGED readerVars

\* one iteration of "while True": rfid.select(), the body, time.sleep(delay).
\* An exception of select() leaves the loop.
LoopIteration(outcome) ==
    /\ loopPc = "running"
    /\ Len(results) < MaxIter
    /\ selectCalls' = selectCalls + 1
    /\ selectErr' = outcome.error
    /\ IF outcome.error # ""
       THEN /\ loopPc' = "terminated"
            /\ UNCHANGED <<present, events, results, eventIter>>
       ELSE LET published == LoopPublish(present, outcome.value)
            IN  /\ present' = LoopPresent(present, outcome.value)
                /\ events' = events \o published
                /\ eventIter' = eventIter \o [k \in 1..Len(published) |-> Len(results) + 1]
                /\ results' = Append(results, outcome.value)
                /\ loopPc' = loopPc
    /\ UNCHANGED readerVars

LoopNext == \E o \in SelectOutcomes : LoopIteration(o)

LoopSpec == LoopInit /\ [][LoopNext]_vars

\* The bridge as main() sets it up, RFIDReader(1, 0x50, 4, None), with the
\* session's other operations callable between the iterations of the loop.
BridgeNext ==
    \/ LoopNext
    \/ Sleep
    \/ WakeHigh
    \/ Select
    \/ PollWait
    \/ PollEdge

BridgeSpec == LoopInit /\ [][BridgeNext]_vars

(***************************************************************************)
(* Claims about the bridge loop (under LoopSpec).                          *)
(***************************************************************************)
\* what select() returned in the iteration before iteration i
Previous(i) == IF i = 1 THEN None ELSE results[i - 1]
\* the events published in iteration i, in order
EventsOf(i) == LET at == {k \in 1..Len(events) : eventIter[k] = i}
               IN  IF at = {} THEN <<>>
                   ELSE LET lo == CHOOSE k \in at : \A j \in at : k <= j
                        IN  [k \in 1..Cardinality(at) |-> events[lo + k - 1]]
\* the card whose read published event k
CardOf(k) == results[eventIter[k]]
IsPresented(k) == events[k].topic = PRESENTED_TOPIC
IsRemoved(k) == events[k].topic = REMOVED_TOPIC
Topics == [k \in 1..Len(events) |-> events[k].topic]

\* C1: an iteration publishes card_presented (for the card just read)
\* exactly when select() returned a card different from the last-known
\* value, card_removed exactly when it returned None while a card was last
\* known, and nothing otherwise; events are in iteration order; the reads
\* [None, A, A, None, B, None] give [presented(A), removed, presented(B),
\* removed].
C1_TransitionEvents ==
    /\ Len(eventIter) = Len(events)
    /\ \A k \in 1..Len(events) : \A l \in 1..Len(events) : k < l => eventIter[k] < eventIter[l]
    /\ \A i \in 1..Len(results) :
          IF results[i] # None /\ results[i] # Previous(i)
          THEN EventsOf(i) = <<Publish(PRESENTED_TOPIC, results[i][2])>>
          ELSE IF results[i] = None /\ Previous(i) # None
          THEN EventsOf(i) = <<Publish(REMOVED_TOPIC, None)>>
          ELSE EventsOf(i) = <<>>
    /\ results = <<None, CardA, CardA, None, CardB, None>> =>
          /\ Topics = <<PRESENTED_TOPIC, REMOVED_TOPIC, PRESENTED_TOPIC, REMOVED_TOPIC>>
          /\ eventIter = <<2, 4, 5, 6>>
          /\ events[1].payload = CardA[2]
          /\ events[3].payload = CardB[2]

C1_Witness ==
    /\ results = <<None, CardA, CardA, None, CardB, None>>
    /\ Len(events) = 4

\* C2 as stated: between any two card_presented events for the same card
\* value there is a card_removed event.
C2_RemovedBetweenPresented ==
    \A k \in 1..Len(events) : \A l \in 1..Len(events) :
        (k < l /\ IsPresented(k) /\ IsPresented(l) /\ CardOf(k) = CardOf(l))
            => \E m \in (k + 1)..(l - 1) : IsRemoved(m)

\* C2 amended: between any two card_presented events for the same card
\* value there is a card_removed event or a card_presented event for a
\* different card value.
C2_EventBetweenPresented ==
    \A k \in 1..Len(events) : \A l \in 1..Len(events) :
        (k < l /\ IsPresented(k) /\ IsPresented(l) /\ CardOf(k) = CardOf(l))
            => \E m \in (k + 1)..(l - 1) :
                  IsRemoved(m) \/ (IsPresented(m) /\ CardOf(m) # CardOf(k))

C2_Witness ==
    \E k \in 1..Len(events) : \E l \in 1..Len(events) :
        /\ k < l /\ IsPresented(k) /\ IsPresented(l) /\ CardOf(k) = CardOf(l)
        /\ \A m \in (k + 1)..(l - 1) : ~IsRemoved(m)

\* C3: the event stream never holds two consecutive card_presented events
\* for the same card value, and an iteration whose select() returns a card
\* equal to the last-known card publishes nothing and leaves the last-known
\* value unchanged.
C3_NoRepeatedPresented ==
    /\ [](\A k \in 1..(Len(events) - 1) :
            (IsPresented(k) /\ IsPresented(k + 1)) => CardOf(k) # CardOf(k + 1))
    /\ [][(/\ Len(results') = Len(results) + 1
           /\ results'[Len(results')] # None
           /\ results'[Len(results')] = present)
          => (events' = events /\ present' = present)]_vars

C3_Witness ==
    /\ Len(results) >= 2
    /\ results[1] # None
    /\ results[2] = results[1]
    /\ Len(events) = 1

\* C4: the first event is never card_removed, and every card_removed is
\* immediately preceded by a card_presented.
C4_RemovedFollowsPresented ==
    \A k \in 1..Len(events) : IsRemoved(k) => (k > 1 /\ IsPresented(k - 1))

C4_Witness ==
    /\ Len(results) >= 3
    /\ results[Len(results)] = None
    /\ results[Len(results) - 1] = None
    /\ \E k \in 1..Len(events) : IsRemoved(k)

(***************************************************************************)
(* Claims about the reader session (under Spec).                           *)
(***************************************************************************)
Completed(op) == pc = "idle" /\ cur.op = op
Kinds == [k \in 1..Len(busOps) |-> busOps[k].kind]

\* C5: select() runs one SELECT transaction (one bus write of the request
\* frame, then one bus read) and, for every response that echoes the
\* request's command, returns None when the response status is not SUCCESS
\* and otherwise the card with uid = the response data without its last
\* byte and type = that last byte.
C5_SelectReturnsCard ==
    Completed("select") =>
        /\ Kinds = <<"write", "read">>
        /\ LET request == busOps[1].bytes
               response == busOps[2].bytes
           IN  (Len(response) >= 3 /\ response[2] % 128 = request[2]) =>
                   LET status == response[3] % 128
                       data == ReadDecode(response).value[3]
                   IN  IF status # STATUS_SUCCESS THEN ret = Ok(None)
                       ELSE Len(data) >= 1 =>
                               ret = Ok(<<data[Len(data)], SubSeq(data, 1, Len(data) - 1)>>)

\* C6: a transaction that got a decodable response fails with the
\* command-mismatch error whenever the response command (bit 7 cleared)
\* differs from the request command, whatever the status, and otherwise
\* returns the decoded (status, data).
C6_TransactionMismatch ==
    (Completed("transaction") /\ Kinds = <<"write", "read">> /\ Len(busOps[2].bytes) >= 3) =>
        LET response == busOps[2].bytes
            decoded == ReadDecode(response).value
        IN  IF response[2] % 128 # cur.command
            THEN ret = Err(CommandMismatch)
            ELSE ret = Ok(<<decoded[2], decoded[3]>>)

C6_Witness ==
    /\ Completed("transaction")
    /\ Kinds = <<"write", "read">>
    /\ Len(busOps[2].bytes) >= 3
    /\ busOps[2].bytes[2] % 128 # cur.command
    /\ busOps[2].bytes[3] % 128 = STATUS_SUCCESS
    /\ ret = Err(CommandMismatch)

C8_ShortFrameFails ==
    (Completed("read") /\ Len(busOps[1].bytes) >= 1
        /\ Len(busOps[1].bytes) < (busOps[1].bytes[1] % 128) + 1) => ret.error # ""

\* C9: for a raw response of sufficient length, read() returns command =
\* cleaned[1], status = cleaned[2] and data = cleaned[3 .. length+1] with
\* length = cleaned[0], where cleaned is raw with bit 7 of every byte
\* cleared (0-based positions, as in the source).
C9_DecodeClearsEveryByte ==
    (Completed("read") /\ Len(busOps[1].bytes) >= 3
        /\ Len(busOps[1].bytes) >= (busOps[1].bytes[1] % 128) + 1) =>
        LET raw == busOps[1].bytes
            cleaned == [i \in 1..Len(raw) |-> raw[i] % 128]
            length == cleaned[1]
        IN  ret = Ok(<<cleaned[2], cleaned[3], SubSeq(cleaned, 4, length + 1)>>)

\* C10: wake() on a session without a wake pin and poll() on a session
\* without a detect pin end in an error (the AttributeError of the None
\* attribute) and access neither a GPIO line nor the bus.
C10_MissingPinFails ==
    /\ (cur.op = "wake" /\ pin_wake = PinNone) =>
          (pc = "idle" /\ ret = Err(NoneTypeError) /\ gpioOps = <<>> /\ busOps = <<>>)
    /\ (cur.op = "poll" /\ pin_detect = PinNone) =>
          (pc = "idle" /\ ret = Err(NoneTypeError) /\ gpioOps = <<>> /\ busOps = <<>>)
    /\ pin_wake = PinNone => wakeLine = ""

C10_Witness ==
    /\ Completed("wake")
    /\ pin_wake = PinNone
    /\ ret = Err(NoneTypeError)

\* C11 as stated: decoding the encoding of a valid (command, data), with
\* bit 7 set on the wire, returns the same command and the same data.
C11_RoundTripIdentity ==
    (Completed("roundtrip") /\ 0 <= cur.command /\ cur.command <= 255 /\ Len(cur.data) <= 254) =>
        /\ ret.error = ""
        /\ ret.value[1] = cur.command
        /\ ret.value[3] = cur.data

\* C11 amended: decoding the encoding of a valid (command, data) fails when
\* data is empty (the request frame has no status byte) and otherwise
\* returns command with bit 7 cleared, the first payload byte with bit 7
\* cleared as the status, and the remaining payload bytes with bit 7
\* cleared as the data.
C11_RoundTripShifted ==
    (Completed("roundtrip") /\ 0 <= cur.command /\ cur.command <= 255 /\ Len(cur.data) <= 254) =>
        IF Len(cur.data) = 0 THEN ret = Err(IndexError)
        ELSE ret = Ok(<<cur.command % 128, cur.data[1] % 128,
                        [i \in 1..(Len(cur.data) - 1) |-> cur.data[i + 1] % 128]>>)

C11_Witness ==
    /\ Completed("roundtrip")
    /\ cur.command = 129
    /\ Len(cur.data) = 254
    /\ ret.error = ""
    /\ ret.value[1] = 1
    /\ Len(ret.value[3]) = 253

\* C12: a card_presented event carries the UID and the type of the card
\* read in its iteration, so presentations of cards that differ in UID or
\* in type have different payloads.
C12_PayloadIdentifiesCard ==
    \A k \in 1..Len(events) : \A l \in 1..Len(events) :
        (IsPresented(k) /\ IsPresented(l) /\ CardOf(k) # CardOf(l))
            => events[k].payload # events[l].payload

\* C13: when select() raises in an iteration the loop ends there: that
\* iteration publishes nothing and changes nothing, and afterwards the loop
\* publishes nothing and calls select() (its only access to the bus) no more.
C13_ErrorEndsLoop ==
    /\ [](selectErr # "" => loopPc = "terminated")
    /\ [][(selectCalls' # selectCalls /\ selectErr' # "")
            => (events' = events /\ present' = present /\ results' = results)]_vars
    /\ [][loopPc = "terminated"
            => (events' = events /\ selectCalls' = selectCalls /\ busOps' = busOps
                /\ loopPc' = "terminated")]_vars

C13_Witness ==
    /\ loopPc = "terminated"
    /\ selectErr = CommandMismatch
    /\ present # None
    /\ Len(events) >= 1
    /\ IsPresented(Len(events))

ValidRequest == 0 <= cur.command /\ cur.command <= 255 /\ Len(cur.data) <= 254
RequestFrame == <<1 + Len(cur.data), cur.command>> \o cur.data

\* C14: a transaction whose request passes validation makes exactly one
\* bus write, of the frame [1 + len(data), command, ...data], and then,
\* after the settle delay, exactly one bus read; one whose request fails
\* validation makes no bus access.
C14_OneWriteThenOneRead ==
    /\ (cur.op = "transaction" /\ pc = "settle") =>
          (ValidRequest /\ busOps = <<BusWrite(RequestFrame)>>)
    /\ (Completed("transaction") /\ ValidRequest) =>
          (Kinds = <<"write", "read">> /\ busOps[1] = BusWrite(RequestFrame))
    /\ (Completed("transaction") /\ ~ValidRequest) => (busOps = <<>> /\ ret.error # "")

C14_Witness ==
    /\ Completed("transaction")
    /\ ValidRequest
    /\ Len(cur.data) = 254
    /\ ret.error = CommandMismatch
    /\ Kinds = <<"write", "read">>

\* C15: every sleep() writes exactly one frame, [1, COMMAND_SLEEP], reads
\* nothing from the bus and touches no GPIO line, from whatever state it is
\* called in.
C15_SleepWritesOneFrame ==
    /\ [](cur.op = "sleep" =>
            (pc = "idle" /\ ret = Ok(None) /\ gpioOps = <<>>
             /\ busOps = <<BusWrite(<<1, COMMAND_SLEEP>>)>>))
    /\ [][cur'.op = "sleep" => wakeLine' = wakeLine]_vars

C15_Witness ==
    /\ Completed("sleep")
    /\ wakeLine = "0"
    /\ busOps = <<BusWrite(<<1, 1>>)>>

\* C16: poll() reads the detect line, then waits for the edge, then makes
\* one select() transaction: no bus access before the edge, and exactly one
\* bus write followed by one bus read after it.
C16_PollSelectsAfterEdge ==
    /\ (cur.op = "poll" /\ pc = "edge") =>
          (busOps = <<>> /\ gpioOps = <<"detect.read", "detect.epoll">>)
    /\ (cur.op = "poll" /\ pc = "settle") => Kinds = <<"write">>
    /\ (Completed("poll") /\ pin_detect # PinNone) =>
          (Kinds = <<"write", "read">> /\ gpioOps = <<"detect.read", "detect.epoll", "detect.edge">>)

\* C17: with a wake pin the wake line is high after construction and stays
\* high until the first wake(); wake() writes 1, waits, then writes 0; the
\* line is low after every completed wake() and, from then on, high only
\* during a pulse.
C17_WakeLine ==
    /\ (pin_wake = PinFile => wakeLine = "1")
    /\ [](pin_wake = PinFile =>
            /\ wakeLine \in {"0", "1"}
            /\ pc = "pulse" => (wakeLine = "1" /\ gpioOps = <<"wake.write 1">>)
            /\ Completed("wake") =>
                  (wakeLine = "0" /\ gpioOps = <<"wake.write 1", "wake.write 0">>))
    /\ [][pc = "pulse" => (pc' = "idle" /\ wakeLine' = "0")]_vars
    /\ [][(wakeLine' = "1" /\ pc' # "pulse") => (wakeLine = "1" /\ pc # "pulse")]_vars
    /\ [][wakeLine' # wakeLine => cur'.op = "wake"]_vars

C17_Witness ==
    /\ pin_wake = PinFile
    /\ Completed("wake")
    /\ wakeLine = "0"

\* C18: after every completed iteration of the loop the last-known value
\* equals what select() returned in that iteration, whatever came before,
\* and nothing but a completed iteration changes the last-known value.
C18_PresentIsLastResult ==
    /\ [](present = IF results = <<>> THEN None ELSE results[Len(results)])
    /\ [][present' # present =>
            (Len(results') = Len(results) + 1 /\ selectCalls' = selectCalls + 1
             /\ UNCHANGED readerVars)]_vars

C18_Witness ==
    /\ Len(results) >= 3
    /\ results[1] = CardA
    /\ results[2] = None
    /\ present = CardB
    /\ Completed("sleep")

\* C19 as stated: a transaction whose request command is in 128..255 fails
\* with the command-mismatch error for every response.
C19_HighCommandAlwaysMismatch ==
    (Completed("transaction") /\ ValidRequest /\ cur.command >= 128) =>
        ret = Err(CommandMismatch)

\* C19 amended: a transaction whose request command is in 128..255 never
\* returns a result: it fails with the command-mismatch error for every
\* response of at least 3 bytes, even one whose raw command byte equals the
\* request command, and with the IndexError of read() for a shorter one.
C19_HighCommandNeverSucceeds ==
    (Completed("transaction") /\ ValidRequest /\ cur.command >= 128) =>
        IF Len(busOps[2].bytes) >= 3
        THEN ret = Err(CommandMismatch)
        ELSE ret = Err(IndexError)

C19_Witness ==
    /\ Completed("transaction")
    /\ cur.command = 129
    /\ Len(busOps) = 2
    /\ Len(busOps[2].bytes) >= 3
    /\ busOps[2].bytes[2] = cur.command
    /\ busOps[2].bytes[3] % 128 = STATUS_SUCCESS
    /\ ret = Err(CommandMismatch)

====
